---- MODULE Spec2Model ----
(***************************************************************************)
(* State-machine model of the Nano Banana Monster photo editor:            *)
(*   - the single-image session of App.tsx (edit history, credits, the     *)
(*     asynchronous edit handlers and their continuations, persistence),   *)
(*   - the batch run of BatchEditor,                                       *)
(*   - the session record in IndexedDB (dbService.ts), with its pending    *)
(*     writes and with the records a page can find when it opens,          *)
(*   - the voice sessions of VoiceControl,                                 *)
(*   - the tool and selection state of App.tsx (active tool, retouch       *)
(*     hotspot, erase region, image dimensions) and the edit scope that    *)
(*     generateEditedImage puts into the request.                          *)
(*                                                                         *)
(* Scheduling model.  The program is a React application on one event      *)
(* loop.  One step of the model is one task of that loop: a DOM event      *)
(* handler up to its first await, or the continuation of an async handler  *)
(* after an await / in a callback.  All setState calls of one task are     *)
(* applied together (React batches them) and the component is rendered     *)
(* before the next task, so every handler closure reads the state of the   *)
(* render in which it was created.  An async handler keeps the closure of  *)
(* the render in which it was DISPATCHED: the record kept in `pending`     *)
(* carries the `history` and `historyIndex` that its later call of         *)
(* updateHistory will read.                                                *)
(***************************************************************************)
EXTENDS Integers, Sequences, FiniteSets, Bags, TLC

\* ---------------------------------------------------------------- bounds
MaxHist == 2      \* longest history explored
MaxBlobs == 1     \* canvas.toBlob callbacks outstanding at once
MaxBatch == 2     \* files in a batch upload
MaxSessions == 2  \* voice sessions, timers and orphan streams alive at once
MaxWrites == 2    \* IndexedDB requests made and not yet applied

\* ------------------------------------------------------- program constants
INITIAL_CREDITS == 25

\* Files the user can upload and files an edit can produce (every edit makes
\* a new File, so the two sets are disjoint).  The program never looks into a
\* File: two uploads tell one session's original from another's, and one
\* value stands for the File of any edit.
Uploads == {"A", "B"}
Results == {"X"}

\* error: string | null
NoError == "null"
Message == "message"

\* The single-image billable operations that append to the history.
BillableOps == {"retouch", "erase", "filter", "adjust", "scene", "colorize",
                "repair", "colorize_repair", "transparent", "upscale"}
\* Of these, the ones that validate their input before dispatch.
ValidatedOps == {"retouch", "erase"}

VARIABLES
  editMode,            \* 'single' | 'batch'
  batchFiles,          \* number of files handed to BatchEditor
  history,             \* File[]
  historyIndex,        \* -1 before a session has started
  isLoading,
  isRestoring,
  error,
  credits,
  isSuggestingTitles,
  pending,             \* bag of async continuations not yet run, with their closure
  store,               \* the IndexedDB record under SESSION_KEY
  writes,              \* records of the put / delete requests not yet applied, oldest
                       \* first (NoRecord for a delete)
  writeLatency,        \* environment: "none" when IndexedDB applies every request before
                       \* the next task of the page runs, "any" when a request may stay
                       \* pending across tasks
  images,              \* BatchEditor: BatchImage[]
  isProcessing,        \* BatchEditor
  runs,                \* BatchEditor: bag of handleApply loops in progress; each is its
                       \* pendingImages still to finish, the head being the awaited call
  lastUpload,          \* history variable: file of the most recent upload
  trip,                \* history variable: where the last steps stand in the sequence
                       \* append, undo, redo, with the history state the append left
  rejected             \* history variable: the handler that just returned early, or
                       \* "restored" when the last step adopted the stored session

VARIABLES
  status,              \* VoiceControl: VoiceStatus
  mediaRecorderRef,    \* VoiceControl: slot of the recorder in mediaRecorderRef.current, 0 for null
  sessions,            \* VoiceControl: the calls of handleStartRecording that passed the
                       \* status guard, by slot: where the call stands, and its transcript
  timers,              \* VoiceControl: pending setTimeout(() => setStatus('idle'), 3000)
  orphanStreams,       \* microphone streams whose session is over and whose tracks run on
  message,             \* the argument of the last onStatusUpdate call
  clearTimers,         \* VoiceControl: pending setTimeout(() => onStatusUpdate(null), 2000)
  onCommand            \* the call of the onCommand prop made by the last step, if any

VARIABLES
  activeTool,              \* App: Tool, "null" for none
  isComparing,             \* App
  hotspot,                 \* App: { x, y } | null, in native pixels of the image
  completedEraseSelection, \* App: PixelCrop | undefined
  imageDimensions,         \* App: { width, height } | null
  natural,                 \* naturalWidth / naturalHeight of currentImage, NoImage without one
  edited,                  \* historyIndex > 0
  inFlight,                \* the edit handler that is awaiting its result, "idle" for none;
                           \* isLoading is inFlight # "idle"
  outbound,                \* the arguments of the latest call of generateEditedImage
  request                  \* the scope that call put into its request

appVars   == <<editMode, batchFiles, history, historyIndex, isLoading,
               isRestoring, error, credits, isSuggestingTitles>>
batchVars == <<images, isProcessing, runs>>
voiceVars == <<status, mediaRecorderRef, sessions, timers, orphanStreams, message,
               clearTimers, onCommand>>
editorVars == <<appVars, batchVars, pending, store, writes, writeLatency,
                lastUpload, trip, rejected>>
toolVars  == <<activeTool, isComparing, hotspot, completedEraseSelection,
               imageDimensions, natural, edited, inFlight, outbound, request>>
vars      == <<editorVars, voiceVars, toolVars>>

\* ------------------------------------------------------------- helpers
Max(a, b) == IF a >= b THEN a ELSE b

\* const currentImage = history[historyIndex]  (undefined when out of range)
hasCurrentImage == historyIndex >= 0 /\ historyIndex < Len(history)
currentImage == history[historyIndex + 1]
originalImage == history[1]

\* The record under SESSION_KEY: store.get gives undefined (present FALSE) or
\* an object; hasCredits tells whether the object has a `credits` property.
NoRecord ==
  [present |-> FALSE, history |-> <<>>, historyIndex |-> -1,
   hasCredits |-> FALSE, credits |-> 0]

\* saveSession({ history, historyIndex, credits }): the object that store.put
\* clones; a File is cloned as a File.
SessionRecord(h, i, c) ==
  [present |-> TRUE, history |-> h, historyIndex |-> i,
   hasCredits |-> TRUE, credits |-> c]

\* Variant: || in place of ??, which also replaces a stored 0.
loadedCredits_or(rec) ==
  IF rec.hasCredits /\ rec.credits # 0 THEN rec.credits ELSE INITIAL_CREDITS

\* savedSession.credits ?? INITIAL_CREDITS
loadedCredits(rec) == IF rec.hasCredits THEN rec.credits ELSE INITIAL_CREDITS

\* savedSession && savedSession.history.length > 0
hasSavedSession(rec) == rec.present /\ Len(rec.history) > 0

\* Variant: the save effect without its guard.
SaveEffect_unguarded(restoring, mode, h, i, c, old) ==
  IF Len(h) > 0 THEN SessionRecord(h, i, c) ELSE NoRecord

\* The save effect: runs after a render in which history, historyIndex,
\* credits, isRestoring or editMode changed.  IndexedDB runs the transactions
\* of one store in the order they were created, so the record left by a task
\* is the one written by its effect.
SaveEffect(restoring, mode, h, i, c, old) ==
  IF restoring \/ mode = "batch" THEN old
  ELSE IF Len(h) > 0 THEN SessionRecord(h, i, c)
  ELSE NoRecord

\* Variant: the requests of a task overtake the pending ones.
Request_overtaking(recs) ==
  IF writeLatency = "none"
    THEN /\ store' = IF recs = <<>> THEN store ELSE recs[Len(recs)]
         /\ writes' = <<>>
    ELSE /\ store' = store
         /\ writes' = recs \o writes
         /\ Len(writes') <= MaxWrites

\* A task asks for the writes recs, in that order (saveSession and
\* clearSession each open a transaction on the one object store; IndexedDB
\* runs them in the order they were made).
Request(recs) ==
  IF writeLatency = "none"
    THEN /\ store' = IF recs = <<>> THEN store ELSE recs[Len(recs)]
         /\ writes' = <<>>
    ELSE /\ store' = store
         /\ writes' = writes \o recs
         /\ Len(writes') <= MaxWrites

\* useEffect(..., [history, historyIndex, credits, isRestoring, editMode]):
\* the effect runs after a render in which a dependency changed.  (A
\* setHistory with an equal array also runs it; the record it writes is the
\* one last asked for, and is left out.)
DepsChanged ==
  <<history', historyIndex', credits', isRestoring', editMode'>>
    # <<history, historyIndex, credits, isRestoring, editMode>>

\* The write the save effect asks for after the task, rec being what
\* SaveEffect gives for the new state.
Persist(rec) ==
  Request(IF DepsChanged /\ ~isRestoring' /\ editMode' = "single"
            THEN <<rec>> ELSE <<>>)

\* ------------------------------------------------------------- credits
\* Variants of deductCredit with a slip: no deduction; two taken, unclamped.
deductCredit_none(prev) == prev
deductCredit_twice(prev) == prev - 2

deductCredit(prev) == Max(0, prev - 1)

\* Variant: the batch is charged as one operation.
deductCredits_one(prev, amount) == Max(0, prev - 1)

deductCredits(prev, amount) == Max(0, prev - amount)

refillCredits == INITIAL_CREDITS

\* if (credits <= 0) { setError("You are out of credits..."); return; }
outOfCredits(c) == c <= 0

\* Variant: the batch guard only asks for some credit, as the single-image
\* guard does.
notEnoughCredits_any(c, n) == c <= 0

\* if (credits < pendingImages.length) { alert(...); return; }
notEnoughCredits(c, n) == c < n

\* ------------------------------------------------------------- history
\* updateHistory: history.slice(0, historyIndex + 1) then push(newImage);
\* h and i are the history and historyIndex of the caller's closure.
newHistory(h, i, newImage) == Append(SubSeq(h, 1, i + 1), newImage)

\* The history variable trip: no sequence under way, or the state the append
\* of the sequence left.
NoTrip == [phase |-> "none", history |-> <<>>, historyIndex |-> -1]
Appended(h, i) == [phase |-> "appended", history |-> h, historyIndex |-> i]

\* Variant: redo without effect.
handleRedoIndex_stuck(i, len) == i

\* Variant: undo without its guard.
handleUndoIndex_unguarded(i) == i - 1

handleUndoIndex(i) == IF i > 0 THEN i - 1 ELSE i

handleRedoIndex(i, len) == IF i < len - 1 THEN i + 1 ELSE i

\* A continuation and what it reads, when it runs, of the render it was
\* created in: historyIndex and the entries history.slice(0, historyIndex + 1)
\* of that render's history, the only ones updateHistory looks at.  (The
\* title suggestion reads none of them.)
Closure(kind) ==
  [kind |-> kind, history |-> SubSeq(history, 1, historyIndex + 1),
   historyIndex |-> historyIndex]
TitlesClosure == [kind |-> "titles", history |-> <<>>, historyIndex |-> -1]

Pending(kind) == {c \in BagToSet(pending) : c.kind = kind}
AddPending(c) == pending (+) SetToBag({c})
RemovePending(c) == pending (-) SetToBag({c})

\* ------------------------------------------------------ voice control
\* type VoiceStatus
VoiceStatus == {"idle", "listening", "transcribing", "interpreting", "error"}

\* A call of handleStartRecording that got past `if (status !== 'idle') return`
\* lives in a slot until its last continuation has run:
\*   permission    awaiting getUserMedia
\*   recording     recorder.start() done, recorder.state = 'recording'
\*   stopping      recorder.stop() called, the stop event not yet delivered
\*   transcribing  in recorder.onstop, awaiting transcribeAudio
\*   interpreting  in recorder.onstop, awaiting interpretVoiceCommand
\* From recording on the session holds the stream that getUserMedia gave it.
Slots == 1..MaxSessions
FreeSlot == [phase |-> "free", transcript |-> <<>>]
HoldsStream(s) ==
  sessions[s].phase \in {"recording", "stopping", "transcribing", "interpreting"}
ActiveSlots == {s \in Slots : sessions[s].phase # "free"}
LiveStreams == Cardinality({s \in Slots : HoldsStream(s)}) + orphanStreams
Recording == {s \in Slots : sessions[s].phase = "recording"}

\* Texts are sequences of characters: " " is white space, any other a letter.
Transcripts == {<<>>, <<" ">>, <<"u">>, <<" ", "u", " ">>}
Prompts == {<<>>, <<"p">>}

RECURSIVE TrimStart(_)
TrimStart(t) == IF t # <<>> /\ Head(t) = " " THEN TrimStart(Tail(t)) ELSE t

RECURSIVE TrimEnd(_)
TrimEnd(t) ==
  IF t # <<>> /\ t[Len(t)] = " " THEN TrimEnd(SubSeq(t, 1, Len(t) - 1)) ELSE t

\* String.prototype.trim
Trim(t) == TrimEnd(TrimStart(t))

\* Variant: the text is tested without trimming it.
isBlank_untrimmed(t) == t = <<>>

\* !transcribedText.trim()
isBlank(t) == Trim(t) = <<>>

\* ParsedCommand['tool'], the declared command vocabulary.
DeclaredTools ==
  {"retouch", "erase", "filter", "adjust", "colorize", "crop", "background",
   "upscale", "studio", "social", "undo", "redo", "download", "unknown"}

\* const validTools = [...] of interpretVoiceCommand.
validTools ==
  {"retouch", "erase", "filter", "adjust", "colorize", "background",
   "upscale", "studio", "social", "undo", "redo", "download", "unknown"}

\* What generateContent can come back with: a JSON object with some tool
\* name (the schema asks for a string, any string) and a prompt, or an
\* exception (network error, text that JSON.parse rejects).
ModelTools == DeclaredTools \cup {"paint"}
Responses ==
  [kind : {"json"}, tool : ModelTools, prompt : Prompts]
    \cup {[kind |-> "throws", tool |-> "unknown", prompt |-> <<>>]}

Unknown(transcribedText) == [tool |-> "unknown", prompt |-> transcribedText]

\* Variant: the fallback of the catch block drops the transcript.
interpretVoiceCommand_emptyFallback(transcribedText, response) ==
  IF response.kind = "json" /\ response.tool \in validTools
    THEN [tool |-> response.tool, prompt |-> response.prompt]
  ELSE Unknown(<<>>)

\* interpretVoiceCommand, given what generateContent answers.
interpretVoiceCommand(transcribedText, response) ==
  IF response.kind = "throws" THEN Unknown(transcribedText)
  ELSE IF response.tool \in validTools
    THEN [tool |-> response.tool, prompt |-> response.prompt]
  ELSE Unknown(transcribedText)

NoCall == [tool |-> "none", prompt |-> <<>>]

\* VoiceControl after mounting.
VoiceMounted ==
  /\ status = "idle"
  /\ mediaRecorderRef = 0
  /\ sessions = [s \in Slots |-> FreeSlot]
  /\ timers = 0
  /\ orphanStreams = 0
  /\ message = "null"
  /\ clearTimers = 0
  /\ onCommand = NoCall

\* ------------------------------------------------ tools and selections
\* The tool and selection state is written by the toolbar, the canvas and the
\* retouch / erase handlers.  No handler reads it to decide what happens to the
\* history, the credits or the stored session, so the actions of the sections
\* above are followed without it, and ToolSpec below follows the handlers that
\* write it, with the history reduced to what they read of it: the native size
\* of the current image (natural) and whether there is an earlier entry to
\* compare with (edited).

\* type Tool, without null
Tool == {"retouch", "erase", "filter", "adjust", "colorize", "crop",
         "background", "upscale", "social", "studio"}
\* the entries of `tools` marked comingSoon: their buttons are disabled
ComingSoon == {"crop", "social"}
\* the tools whose canvas is the ReactCrop element
CropCanvasTools == {"crop", "social", "erase"}

Null      == [is |-> "null"]
Undefined == [is |-> "undefined"]

\* native sizes an image can have
NoImage == [width |-> 0, height |-> 0]
Sizes == {[width |-> 200, height |-> 100], [width |-> 400, height |-> 200]}
\* positions of a click, already converted to native pixels by handleImageClick
Points == {[x |-> 50, y |-> 50], [x |-> 100, y |-> 25]}
\* selections ReactCrop reports: a dragged rectangle, and the empty rectangle
\* of a click without a drag
Selections == {[x |-> 20, y |-> 10, width |-> 40, height |-> 20],
               [x |-> 20, y |-> 10, width |-> 0, height |-> 0]}
\* useState(50): the radius of the retouch hotspot
hotspotRadius == 50

\* (a / b * 100).toFixed(1), in tenths of a percent
Percent(a, b) == (2000 * a + b) \div (2 * b)

\* JavaScript truthiness of the imageDimensions argument
Given(dims) == dims \notin {Null, Undefined}
\* selection?.width && selection?.height
ProperRegion(selection) ==
  /\ selection \notin {Null, Undefined}
  /\ selection.width # 0
  /\ selection.height # 0

NoScope == [region |-> Undefined, hotspot |-> Undefined, made |-> FALSE]
NoArgs == [hotspot |-> Null, radius |-> 0, selection |-> Undefined,
           imageDimensions |-> Null, made |-> FALSE]
Args(h, r, sel, d) ==
  [hotspot |-> h, radius |-> r, selection |-> sel, imageDimensions |-> d, made |-> TRUE]

\* generateEditedImage: the scope part of the prompt.  `region` and `hotspot`
\* are the percentages written into the prompt, Undefined when the prompt does
\* not carry that geometry; both Undefined is the global edit.
generateEditedImage_hotspotFirst(h, radius, selection, dims) ==
  IF h # Null /\ Given(dims)
  THEN [region  |-> Undefined,
        hotspot |-> [x |-> Percent(h.x, dims.width),
                     y |-> Percent(h.y, dims.height),
                     radius |-> Percent(radius, dims.width)],
        made |-> TRUE]
  ELSE IF ProperRegion(selection) /\ Given(dims)
  THEN [region  |-> [x |-> Percent(selection.x, dims.width),
                     y |-> Percent(selection.y, dims.height),
                     width  |-> Percent(selection.width, dims.width),
                     height |-> Percent(selection.height, dims.height)],
        hotspot |-> Undefined,
        made |-> TRUE]
  ELSE [region |-> Undefined, hotspot |-> Undefined, made |-> TRUE]

generateEditedImage(h, radius, selection, dims) ==
  IF ProperRegion(selection) /\ Given(dims)
  THEN [region  |-> [x |-> Percent(selection.x, dims.width),
                     y |-> Percent(selection.y, dims.height),
                     width  |-> Percent(selection.width, dims.width),
                     height |-> Percent(selection.height, dims.height)],
        hotspot |-> Undefined,
        made |-> TRUE]
  ELSE IF h # Null /\ Given(dims)
  THEN [region  |-> Undefined,
        hotspot |-> [x |-> Percent(h.x, dims.width),
                     y |-> Percent(h.y, dims.height),
                     radius |-> Percent(radius, dims.width)],
        made |-> TRUE]
  ELSE [region |-> Undefined, hotspot |-> Undefined, made |-> TRUE]

\* handleToolSelect: what it leaves of the erase region
eraseSelectionAfterSelect_kept(tool, selection) == selection
eraseSelectionAfterSelect(tool, selection) ==
  IF tool # "erase" THEN Undefined ELSE selection

\* App after mounting: no tool, no selection, no image.
CanvasMounted ==
  /\ activeTool = "null"
  /\ isComparing = FALSE
  /\ hotspot = Null
  /\ completedEraseSelection = Undefined
  /\ imageDimensions = Null
  /\ natural = NoImage
  /\ edited = FALSE
  /\ inFlight = "idle"

ToolMounted ==
  /\ CanvasMounted
  /\ outbound = NoArgs
  /\ request = NoScope

\* ------------------------------------------------------------- Init
AppMounted ==
  /\ editMode = "single"
  /\ batchFiles = 0
  /\ history = <<>>
  /\ historyIndex = -1
  /\ isLoading = FALSE
  /\ isRestoring = TRUE
  /\ error = NoError
  /\ credits = INITIAL_CREDITS
  /\ isSuggestingTitles = FALSE
  /\ pending = EmptyBag
  /\ writes = <<>>
  /\ images = <<>>
  /\ isProcessing = FALSE
  /\ runs = EmptyBag
  /\ lastUpload = "none"
  /\ trip = NoTrip
  /\ rejected = "none"
  /\ VoiceMounted

\* The page opened on an empty store, with an IndexedDB that keeps up.
Init ==
  /\ AppMounted
  /\ ToolMounted
  /\ store = NoRecord
  /\ writeLatency = "none"

\* ------------------------------------------------- session load / reload
\* The load effect (App.tsx 185-210) with loadSession resolving.
LoadSession ==
  /\ isRestoring
  /\ IF hasSavedSession(store)
       THEN /\ history' = store.history
            /\ historyIndex' = store.historyIndex
            /\ credits' = loadedCredits(store)
            /\ editMode' = "single"
            /\ rejected' = "restored"
       ELSE /\ UNCHANGED <<history, historyIndex, credits, editMode>>
            /\ rejected' = "none"
  /\ isRestoring' = FALSE
  /\ UNCHANGED <<batchFiles, isLoading, error, isSuggestingTitles, pending,
                 batchVars, lastUpload>>
  /\ UNCHANGED <<writeLatency, voiceVars, toolVars>>
  /\ trip' = NoTrip
  /\ Persist(SaveEffect(FALSE, editMode', history', historyIndex', credits', store))

\* loadSession rejecting: the catch clears the stored session and awaits
\* that; the save effect then runs for the change of isRestoring and, the
\* history being empty, asks for another clear.
LoadSessionFails ==
  /\ isRestoring
  /\ isRestoring' = FALSE
  /\ store' = NoRecord
  /\ writes' = IF writeLatency = "none" THEN <<>> ELSE <<NoRecord>>
  /\ rejected' = "none"
  /\ UNCHANGED <<editMode, batchFiles, history, historyIndex, isLoading, error,
                 credits, isSuggestingTitles, pending, batchVars, lastUpload>>
  /\ UNCHANGED <<writeLatency, voiceVars, toolVars>>
  /\ trip' = NoTrip

\* The page is reloaded: component state starts again from its useState
\* initial values, outstanding continuations die with the page, the
\* IndexedDB record stays.  Of the requests still pending, those whose
\* transaction had not committed are aborted with the page: some prefix of
\* them has been applied.  The save effect runs after the first render of
\* the new page, with isRestoring true.
Reload ==
  /\ ~isRestoring
  /\ editMode' = "single"
  /\ batchFiles' = 0
  /\ history' = <<>>
  /\ historyIndex' = -1
  /\ isLoading' = FALSE
  /\ isRestoring' = TRUE
  /\ error' = NoError
  /\ credits' = INITIAL_CREDITS
  /\ isSuggestingTitles' = FALSE
  /\ pending' = EmptyBag
  /\ images' = <<>>
  /\ isProcessing' = FALSE
  /\ runs' = EmptyBag
  /\ rejected' = "none"
  /\ \E n \in 0..Len(writes) :
       LET landed == IF n = 0 THEN store ELSE writes[n]
       IN store' = SaveEffect(TRUE, "single", <<>>, -1, INITIAL_CREDITS, landed)
  /\ writes' = <<>>
  /\ UNCHANGED lastUpload
  /\ UNCHANGED <<writeLatency, voiceVars, toolVars>>
  /\ trip' = NoTrip

\* ------------------------------------------------------------- upload
\* resetAndLoadImage through handleNewUpload / handleFileSelect.  The
\* new-upload input is rendered whenever the single editor is, also while
\* isLoading.
Upload(file) ==
  /\ ~isRestoring /\ editMode = "single"
  /\ error' = NoError
  /\ history' = <<file>>
  /\ historyIndex' = 0
  /\ credits' = INITIAL_CREDITS
  /\ editMode' = "single"
  /\ Request(<<NoRecord,
                SaveEffect(isRestoring, editMode', history', historyIndex', credits',
                           NoRecord)>>)
  /\ lastUpload' = file
  /\ rejected' = "none"
  /\ UNCHANGED <<batchFiles, isLoading, isRestoring, isSuggestingTitles, pending,
                 batchVars>>
  /\ UNCHANGED <<writeLatency, voiceVars, toolVars>>
  /\ trip' = NoTrip

\* resetAndLoadImage with a file whose type is not in SUPPORTED_MIME_TYPES.
UploadUnsupported ==
  /\ ~isRestoring /\ editMode = "single"
  /\ error' = Message
  /\ rejected' = "none"
  /\ UNCHANGED <<editMode, batchFiles, history, historyIndex, isLoading,
                 isRestoring, credits, isSuggestingTitles, pending, store, writes,
                 batchVars, lastUpload>>
  /\ UNCHANGED <<writeLatency, voiceVars, toolVars>>
  /\ trip' = NoTrip

\* ------------------------------------------------------------- undo / redo
\* The buttons are disabled while isLoading; the handlers guard the index.
HandleUndo ==
  /\ ~isRestoring /\ editMode = "single" /\ ~isLoading
  /\ historyIndex' = handleUndoIndex(historyIndex)
  /\ rejected' = IF historyIndex <= 0 THEN "undo" ELSE "none"
  /\ UNCHANGED <<editMode, batchFiles, history, isLoading, isRestoring, error,
                 credits, isSuggestingTitles, pending, batchVars, lastUpload>>
  /\ UNCHANGED <<writeLatency, voiceVars, toolVars>>
  /\ trip' = IF trip.phase = "appended" THEN [trip EXCEPT !.phase = "undone"] ELSE NoTrip
  /\ Persist(SaveEffect(isRestoring, editMode, history, historyIndex', credits, store))

HandleRedo ==
  /\ ~isRestoring /\ editMode = "single" /\ ~isLoading
  /\ historyIndex' = handleRedoIndex(historyIndex, Len(history))
  /\ rejected' = IF historyIndex >= Len(history) - 1 THEN "redo" ELSE "none"
  /\ UNCHANGED <<editMode, batchFiles, history, isLoading, isRestoring, error,
                 credits, isSuggestingTitles, pending, batchVars, lastUpload>>
  /\ UNCHANGED <<writeLatency, voiceVars, toolVars>>
  /\ trip' = IF trip.phase = "undone" THEN [trip EXCEPT !.phase = "redone"] ELSE NoTrip
  /\ Persist(SaveEffect(isRestoring, editMode, history, historyIndex', credits, store))

\* ------------------------------------------- billable single-image edits
\* handleApplyRetouch, handleApplyErase, handleApplyFilter, handleApplyAdjustment,
\* handleApplyProductScene, handleApplyColorize, handleApplyRepair,
\* handleApplyColorizeAndRepair, handleGenerateTransparentBg, handleUpscaleImage:
\* the part of the handler before its await.  The panels' Apply buttons are
\* disabled while isLoading and are rendered only once an image is loaded.
\* validInput is the outcome of the prompt / selection check of retouch and
\* erase.
ApplyRemote(op, validInput) ==
  /\ ~isRestoring /\ editMode = "single" /\ ~isLoading
  /\ hasCurrentImage
  /\ IF outOfCredits(credits)
       THEN /\ error' = Message
            /\ rejected' = "credits"
            /\ UNCHANGED <<isLoading, credits, pending>>
       ELSE IF op \in ValidatedOps /\ ~validInput
       THEN /\ error' = Message
            /\ rejected' = "none"
            /\ UNCHANGED <<isLoading, credits, pending>>
       ELSE /\ historyIndex + 2 <= MaxHist
            /\ error' = NoError
            /\ isLoading' = TRUE
            /\ credits' = deductCredit(credits)
            /\ pending' = AddPending(Closure("remote"))
            /\ rejected' = "none"
  /\ UNCHANGED <<editMode, batchFiles, history, historyIndex, isRestoring,
                 isSuggestingTitles, batchVars, lastUpload>>
  /\ UNCHANGED <<writeLatency, voiceVars, toolVars>>
  /\ trip' = NoTrip
  /\ Persist(SaveEffect(isRestoring, editMode, history, historyIndex, credits', store))

\* The continuation after `await generate...Image(...)`: try / catch / finally.
\* outcome "ok" is a data URL that dataURLtoFile turns into newImage; "fail" is
\* any error thrown by the service (handleApiResponse) or by dataURLtoFile.
RemoteReturn(c, outcome, newImage) ==
  /\ c \in Pending("remote")
  /\ IF outcome = "ok"
       THEN /\ error' = NoError
            /\ history' = newHistory(c.history, c.historyIndex, newImage)
            /\ historyIndex' = Len(history') - 1
       ELSE /\ error' = Message
            /\ UNCHANGED <<history, historyIndex>>
  /\ isLoading' = FALSE
  /\ pending' = RemovePending(c)
  /\ rejected' = "none"
  /\ UNCHANGED <<editMode, batchFiles, isRestoring, credits, isSuggestingTitles,
                 batchVars, lastUpload>>
  /\ UNCHANGED <<writeLatency, voiceVars, toolVars>>
  /\ trip' = IF outcome = "ok" THEN Appended(history', historyIndex') ELSE NoTrip
  /\ Persist(SaveEffect(isRestoring, editMode, history', historyIndex', credits, store))

\* handleSuggestSocialTitles up to its await.  Its button is disabled while
\* isLoading or isSuggestingTitles.
SuggestTitles ==
  /\ ~isRestoring /\ editMode = "single" /\ ~isLoading /\ ~isSuggestingTitles
  /\ hasCurrentImage
  /\ IF outOfCredits(credits)
       THEN /\ error' = Message
            /\ rejected' = "credits"
            /\ UNCHANGED <<isSuggestingTitles, credits, pending>>
       ELSE /\ error' = NoError
            /\ isSuggestingTitles' = TRUE
            /\ credits' = deductCredit(credits)
            /\ pending' = AddPending(TitlesClosure)
            /\ rejected' = "none"
  /\ UNCHANGED <<editMode, batchFiles, history, historyIndex, isLoading,
                 isRestoring, batchVars, lastUpload>>
  /\ UNCHANGED <<writeLatency, voiceVars, toolVars>>
  /\ trip' = NoTrip
  /\ Persist(SaveEffect(isRestoring, editMode, history, historyIndex, credits', store))

TitlesReturn(c, outcome) ==
  /\ c \in Pending("titles")
  /\ error' = IF outcome = "ok" THEN error ELSE Message
  /\ isSuggestingTitles' = FALSE
  /\ pending' = RemovePending(c)
  /\ rejected' = "none"
  /\ UNCHANGED <<editMode, batchFiles, history, historyIndex, isLoading,
                 isRestoring, credits, store, writes, batchVars, lastUpload>>
  /\ UNCHANGED <<writeLatency, voiceVars, toolVars>>
  /\ trip' = NoTrip

\* ------------------------------------------------ local canvas operations
\* handleApplyCrop / handleApplySocialPost up to the await.  getCroppedImg and
\* getCroppedAndCompositedImg throw synchronously when getContext('2d') yields
\* null, which the handler's catch turns into an error in the same task.
ApplyCanvas(hasContext) ==
  /\ ~isRestoring /\ editMode = "single" /\ ~isLoading
  /\ hasCurrentImage
  /\ IF hasContext
       THEN /\ historyIndex + 2 <= MaxHist
            /\ error' = NoError
            /\ isLoading' = TRUE
            /\ pending' = AddPending(Closure("canvas"))
       ELSE /\ error' = Message
            /\ UNCHANGED <<isLoading, pending>>
  /\ rejected' = "none"
  /\ UNCHANGED <<editMode, batchFiles, history, historyIndex, isRestoring,
                 credits, isSuggestingTitles, store, writes, batchVars, lastUpload>>
  /\ UNCHANGED <<writeLatency, voiceVars, toolVars>>
  /\ trip' = NoTrip

\* The toBlob promise of getCroppedImg settles: a blob resolves it, no blob
\* rejects it.
CanvasReturn(c, outcome, newImage) ==
  /\ c \in Pending("canvas")
  /\ IF outcome = "ok"
       THEN /\ error' = NoError
            /\ history' = newHistory(c.history, c.historyIndex, newImage)
            /\ historyIndex' = Len(history') - 1
       ELSE /\ error' = Message
            /\ UNCHANGED <<history, historyIndex>>
  /\ isLoading' = FALSE
  /\ pending' = RemovePending(c)
  /\ rejected' = "none"
  /\ UNCHANGED <<editMode, batchFiles, isRestoring, credits, isSuggestingTitles,
                 batchVars, lastUpload>>
  /\ UNCHANGED <<writeLatency, voiceVars, toolVars>>
  /\ trip' = IF outcome = "ok" THEN Appended(history', historyIndex') ELSE NoTrip
  /\ Persist(SaveEffect(isRestoring, editMode, history', historyIndex', credits, store))

NumBlobs == BagCardinality(pending) - Cardinality(Pending("remote") \cup Pending("canvas") \cup Pending("titles"))

\* handleApplyBackgroundColor / handleApplyBackgroundImage up to the point
\* where they wait for the Image elements to load.
ApplyBackground ==
  /\ ~isRestoring /\ editMode = "single" /\ ~isLoading
  /\ hasCurrentImage
  /\ historyIndex + 2 <= MaxHist
  /\ NumBlobs < MaxBlobs
  /\ error' = NoError
  /\ isLoading' = TRUE
  /\ pending' = AddPending(Closure("bgLoad"))
  /\ rejected' = "none"
  /\ UNCHANGED <<editMode, batchFiles, history, historyIndex, isRestoring,
                 credits, isSuggestingTitles, store, writes, batchVars, lastUpload>>
  /\ UNCHANGED <<writeLatency, voiceVars, toolVars>>
  /\ trip' = NoTrip

\* Variant: setIsLoading(false) moved into the `if (ctx)` block.
BgLoaded_loadingInsideIf(c, outcome) ==
  /\ c \in Pending("bgLoad")
  /\ error' = IF outcome = "loadError" THEN Message ELSE error
  /\ pending' = IF outcome = "drawn"
                  THEN RemovePending(c) (+) SetToBag({[c EXCEPT !.kind = "blob"]})
                  ELSE RemovePending(c)
  /\ isLoading' = IF outcome = "noContext" THEN isLoading ELSE FALSE
  /\ rejected' = "none"
  /\ UNCHANGED <<editMode, batchFiles, history, historyIndex, isRestoring,
                 credits, isSuggestingTitles, store, writes, batchVars, lastUpload>>
  /\ UNCHANGED <<writeLatency, voiceVars, toolVars>>
  /\ trip' = NoTrip

\* img.onload / img.onerror (colour), or the code after
\* `await Promise.all(...)` with its catch and finally (image).
\*   "loadError": the image failed to load;
\*   "noContext": getContext('2d') returned null, nothing is drawn;
\*   "drawn":     the canvas is drawn and canvas.toBlob is called.
\* In all three isLoading is cleared in this task.
BgLoaded(c, outcome) ==
  /\ c \in Pending("bgLoad")
  /\ error' = IF outcome = "loadError" THEN Message ELSE error
  /\ pending' = IF outcome = "drawn"
                  THEN RemovePending(c) (+) SetToBag({[c EXCEPT !.kind = "blob"]})
                  ELSE RemovePending(c)
  /\ isLoading' = FALSE
  /\ rejected' = "none"
  /\ UNCHANGED <<editMode, batchFiles, history, historyIndex, isRestoring,
                 credits, isSuggestingTitles, store, writes, batchVars, lastUpload>>
  /\ UNCHANGED <<writeLatency, voiceVars, toolVars>>
  /\ trip' = NoTrip

\* The canvas.toBlob callback of the two background handlers:
\* `if (blob) { updateHistory(newFile) }`, nothing otherwise.
BlobCallback(c, outcome, newImage) ==
  /\ c \in Pending("blob")
  /\ IF outcome = "ok"
       THEN /\ error' = NoError
            /\ history' = newHistory(c.history, c.historyIndex, newImage)
            /\ historyIndex' = Len(history') - 1
       ELSE UNCHANGED <<error, history, historyIndex>>
  /\ pending' = RemovePending(c)
  /\ rejected' = "none"
  /\ UNCHANGED <<editMode, batchFiles, isLoading, isRestoring, credits,
                 isSuggestingTitles, batchVars, lastUpload>>
  /\ UNCHANGED <<writeLatency, voiceVars, toolVars>>
  /\ trip' = IF outcome = "ok" THEN Appended(history', historyIndex') ELSE NoTrip
  /\ Persist(SaveEffect(isRestoring, editMode, history', historyIndex', credits, store))

\* ------------------------------------------------------------- header
\* "Get More" is rendered when credits <= 0, in both modes.
RefillCredits ==
  /\ ~isRestoring
  /\ credits <= 0
  /\ credits' = refillCredits
  /\ rejected' = "none"
  /\ UNCHANGED <<editMode, batchFiles, history, historyIndex, isLoading,
                 isRestoring, error, isSuggestingTitles, pending, batchVars,
                 lastUpload>>
  /\ UNCHANGED <<writeLatency, voiceVars, toolVars>>
  /\ trip' = NoTrip
  /\ Persist(SaveEffect(isRestoring, editMode, history, historyIndex, credits', store))

\* The close button of the error banner.
DismissError ==
  /\ ~isRestoring /\ editMode = "single"
  /\ error # NoError
  /\ error' = NoError
  /\ rejected' = "none"
  /\ UNCHANGED <<editMode, batchFiles, history, historyIndex, isLoading,
                 isRestoring, credits, isSuggestingTitles, pending, store, writes,
                 batchVars, lastUpload>>
  /\ UNCHANGED <<writeLatency, voiceVars, toolVars>>
  /\ trip' = NoTrip

\* ------------------------------------------------------------- batch mode
\* BatchImage: status and whether `processed` holds a file.
PendingItem == [status |-> "pending", processed |-> FALSE]

\* Variant: the run takes every item, whatever its status.
isPending_any(img) == TRUE

\* img => img.status === 'pending'
isPending(img) == img.status = "pending"

\* images.filter(img => img.status === 'pending'), as item positions in
\* array order.
RECURSIVE PendingFrom(_, _)
PendingFrom(imgs, k) ==
  IF k > Len(imgs) THEN <<>>
  ELSE IF isPending(imgs[k]) THEN <<k>> \o PendingFrom(imgs, k + 1)
  ELSE PendingFrom(imgs, k + 1)

pendingImages == PendingFrom(images, 1)

\* setImages(prev => prev.map(img => img.id === id ? {...img, ...} : img))
SetStatus(imgs, k, st, pr) ==
  [j \in 1..Len(imgs) |->
     IF j = k THEN [status |-> st, processed |-> pr] ELSE imgs[j]]

\* handleBatchFileSelect (placeholder batch input, or a drop of several
\* files): both exist only while no image is loaded.  n files have a
\* supported type; allValid tells whether others were dropped from the list.
\* BatchEditor mounts and its effect on [files] fills `images`.
BatchFileSelect(n, allValid) ==
  /\ ~isRestoring /\ editMode = "single" /\ ~hasCurrentImage
  /\ IF n = 0
       THEN /\ error' = Message
            /\ UNCHANGED <<editMode, batchFiles, credits, store, writes, images>>
       ELSE /\ error' = IF allValid THEN NoError ELSE Message
            /\ batchFiles' = n
            /\ editMode' = "batch"
            /\ credits' = INITIAL_CREDITS
            /\ Request(<<NoRecord>>)
            /\ images' = [j \in 1..n |-> PendingItem]
  /\ rejected' = "none"
  /\ UNCHANGED <<history, historyIndex, isLoading, isRestoring,
                 isSuggestingTitles, pending, isProcessing, runs, lastUpload>>
  /\ UNCHANGED <<writeLatency, voiceVars, toolVars>>
  /\ trip' = NoTrip

\* Variant: handleApply without its re-entrancy guard.
alreadyProcessing_never == FALSE

\* if (isProcessing) return;
alreadyProcessing == isProcessing

\* BatchEditor.handleApply up to the first await of its loop.
HandleApply ==
  /\ ~isRestoring /\ editMode = "batch"
  /\ IF alreadyProcessing
       THEN /\ rejected' = "busy"
            /\ UNCHANGED <<credits, images, isProcessing, runs>>
       ELSE IF Len(pendingImages) = 0
       THEN /\ rejected' = "nopending"
            /\ UNCHANGED <<credits, images, isProcessing, runs>>
       ELSE IF notEnoughCredits(credits, Len(pendingImages))
       THEN /\ rejected' = "batchCredits"
            /\ UNCHANGED <<credits, images, isProcessing, runs>>
       ELSE /\ isProcessing' = TRUE
            /\ credits' = deductCredits(credits, Len(pendingImages))
            /\ runs' = runs (+) SetToBag({pendingImages})
            /\ images' = SetStatus(images, Head(pendingImages), "processing",
                                   images[Head(pendingImages)].processed)
            /\ rejected' = "none"
  /\ UNCHANGED <<editMode, batchFiles, history, historyIndex, isLoading,
                 isRestoring, error, isSuggestingTitles, pending, store, writes, lastUpload>>
  /\ UNCHANGED <<writeLatency, voiceVars, toolVars>>
  /\ trip' = NoTrip

\* Variant: a failed item ends the run (the error leaves the loop).
BatchItemReturn_abortOnFail(q, outcome) ==
  /\ editMode = "batch" /\ BagIn(q, runs)
  /\ LET k    == Head(q)
         rest == Tail(q)
         marked == IF outcome = "ok"
                     THEN SetStatus(images, k, "done", TRUE)
                     ELSE SetStatus(images, k, "error", images[k].processed)
     IN IF rest = <<>> \/ outcome = "fail"
          THEN /\ images' = marked
               /\ isProcessing' = FALSE
               /\ runs' = runs (-) SetToBag({q})
          ELSE /\ images' = SetStatus(marked, Head(rest), "processing",
                                      marked[Head(rest)].processed)
               /\ runs' = (runs (-) SetToBag({q})) (+) SetToBag({rest})
               /\ UNCHANGED isProcessing
  /\ rejected' = "none"
  /\ UNCHANGED <<appVars, pending, store, writes, lastUpload>>
  /\ UNCHANGED <<writeLatency, voiceVars, toolVars>>
  /\ trip' = NoTrip

\* The continuation after the await in the loop of run q: the awaited call
\* returned ("ok") or threw ("fail"); the item is marked, then the loop goes
\* on to the next item of its pendingImages, or ends the run.
BatchItemReturn(q, outcome) ==
  /\ editMode = "batch" /\ BagIn(q, runs)
  /\ LET k    == Head(q)
         rest == Tail(q)
         marked == IF outcome = "ok"
                     THEN SetStatus(images, k, "done", TRUE)
                     ELSE SetStatus(images, k, "error", images[k].processed)
     IN IF rest = <<>>
          THEN /\ images' = marked
               /\ isProcessing' = FALSE
               /\ runs' = runs (-) SetToBag({q})
          ELSE /\ images' = SetStatus(marked, Head(rest), "processing",
                                      marked[Head(rest)].processed)
               /\ runs' = (runs (-) SetToBag({q})) (+) SetToBag({rest})
               /\ UNCHANGED isProcessing
  /\ rejected' = "none"
  /\ UNCHANGED <<appVars, pending, store, writes, lastUpload>>
  /\ UNCHANGED <<writeLatency, voiceVars, toolVars>>
  /\ trip' = NoTrip

\* resetBatch; the Reset button is disabled while isProcessing.
ResetBatch ==
  /\ ~isRestoring /\ editMode = "batch" /\ ~isProcessing
  /\ images' = [j \in 1..Len(images) |-> PendingItem]
  /\ rejected' = "none"
  /\ UNCHANGED <<appVars, isProcessing, runs, pending, store, writes, lastUpload>>
  /\ UNCHANGED <<writeLatency, voiceVars, toolVars>>
  /\ trip' = NoTrip

\* onExit; the Exit button is disabled while isProcessing.  BatchEditor is
\* unmounted, and the save effect runs for the change of editMode.
ExitBatch ==
  /\ ~isRestoring /\ editMode = "batch" /\ ~isProcessing
  /\ editMode' = "single"
  /\ batchFiles' = 0
  /\ images' = <<>>
  /\ rejected' = "none"
  /\ UNCHANGED <<history, historyIndex, isLoading, isRestoring, error, credits,
                 isSuggestingTitles, pending, isProcessing, runs, lastUpload>>
  /\ UNCHANGED <<writeLatency, voiceVars, toolVars>>
  /\ trip' = NoTrip
  /\ Persist(SaveEffect(isRestoring, editMode', history, historyIndex, credits, store))

Next ==
  \/ LoadSession
  \/ LoadSessionFails
  \/ Reload
  \/ \E file \in Uploads : Upload(file)
  \/ UploadUnsupported
  \/ HandleUndo
  \/ HandleRedo
  \/ \E op \in BillableOps :
       \E validInput \in (IF op \in ValidatedOps THEN BOOLEAN ELSE {TRUE}) :
         ApplyRemote(op, validInput)
  \/ \E c \in BagToSet(pending), outcome \in {"ok", "fail"}, newImage \in Results :
       RemoteReturn(c, outcome, newImage)
  \/ SuggestTitles
  \/ \E c \in BagToSet(pending), outcome \in {"ok", "fail"} : TitlesReturn(c, outcome)
  \/ \E hasContext \in BOOLEAN : ApplyCanvas(hasContext)
  \/ \E c \in BagToSet(pending), outcome \in {"ok", "fail"}, newImage \in Results :
       CanvasReturn(c, outcome, newImage)
  \/ ApplyBackground
  \/ \E c \in BagToSet(pending), outcome \in {"loadError", "noContext", "drawn"} :
       BgLoaded(c, outcome)
  \/ \E c \in BagToSet(pending), outcome \in {"ok", "fail"}, newImage \in Results :
       BlobCallback(c, outcome, newImage)
  \/ RefillCredits
  \/ DismissError
  \/ \E n \in 0..MaxBatch, allValid \in BOOLEAN : BatchFileSelect(n, allValid)
  \/ HandleApply
  \/ \E q \in BagToSet(runs), outcome \in {"ok", "fail"} : BatchItemReturn(q, outcome)
  \/ ResetBatch
  \/ ExitBatch

Spec == Init /\ [][Next]_vars

\* Specification with the scheduling the batch claims assume: a remote call
\* that is awaited eventually returns or throws.
FairSpec ==
  Spec /\ WF_vars(\E q \in BagToSet(runs), outcome \in {"ok", "fail"} :
                    BatchItemReturn(q, outcome))

\* ------------------------------------------------- stored sessions
\* What the page can find under SESSION_KEY when it opens: nothing, a record
\* an earlier page wrote, or a record that is not one this program writes
\* (historyIndex outside the history, no credits property).
StoredHistories ==
  {<<>>} \cup {<<file>> : file \in Uploads}
         \cup {<<file>> \o rest : file \in Uploads,
                                   rest \in UNION {[1..n -> Results] : n \in 1..(MaxHist - 1)}}
StoredRecords ==
  {NoRecord} \cup
  [present : {TRUE}, history : StoredHistories, historyIndex : -1..MaxHist,
   hasCredits : {TRUE}, credits : {0, INITIAL_CREDITS}] \cup
  [present : {TRUE}, history : StoredHistories, historyIndex : -1..MaxHist,
   hasCredits : {FALSE}, credits : {0}]

RestoreInit ==
  /\ AppMounted
  /\ ToolMounted
  /\ store \in StoredRecords
  /\ writeLatency = "none"

RestoreNext ==
  \/ LoadSession
  \/ LoadSessionFails
  \/ Reload
  \/ \E file \in Uploads : Upload(file)
  \/ HandleUndo
  \/ HandleRedo
  \/ RefillCredits

RestoreSpec == RestoreInit /\ [][RestoreNext]_vars

\* ------------------------------------------------- pending writes
\* The oldest pending request is applied: request.onsuccess.
WriteDone ==
  /\ writes # <<>>
  /\ store' = Head(writes)
  /\ writes' = Tail(writes)
  /\ UNCHANGED <<appVars, batchVars, pending, writeLatency, lastUpload, trip,
                 rejected, voiceVars, toolVars>>

PersistInit ==
  /\ AppMounted
  /\ ToolMounted
  /\ store = NoRecord
  /\ writeLatency = "any"

PersistNext ==
  \/ WriteDone
  \/ LoadSession
  \/ LoadSessionFails
  \/ Reload
  \/ \E file \in Uploads : Upload(file)
  \/ HandleUndo
  \/ HandleRedo
  \/ \E op \in BillableOps :
       \E validInput \in (IF op \in ValidatedOps THEN BOOLEAN ELSE {TRUE}) :
         ApplyRemote(op, validInput)
  \/ \E c \in BagToSet(pending), outcome \in {"ok", "fail"}, newImage \in Results :
       RemoteReturn(c, outcome, newImage)
  \/ RefillCredits
  \/ \E n \in 0..MaxBatch, allValid \in BOOLEAN : BatchFileSelect(n, allValid)
  \/ ExitBatch

PersistSpec == PersistInit /\ [][PersistNext]_vars

\* Specification with the scheduling the single-image claims assume: the
\* remote call, the toBlob promise or the image load that a handler waits for
\* with isLoading set eventually resolves or rejects.
LoadingReturn ==
  \E c \in BagToSet(pending) :
    \/ \E outcome \in {"ok", "fail"}, newImage \in Results :
         RemoteReturn(c, outcome, newImage) \/ CanvasReturn(c, outcome, newImage)
    \/ \E outcome \in {"loadError", "noContext", "drawn"} : BgLoaded(c, outcome)

\* The steps of the single-image editor that read or write isLoading: Next
\* without the batch editor and without the title suggestions, which keep
\* their own flag isSuggestingTitles.
SingleNext ==
  \/ LoadSession
  \/ LoadSessionFails
  \/ Reload
  \/ \E file \in Uploads : Upload(file)
  \/ UploadUnsupported
  \/ HandleUndo
  \/ HandleRedo
  \/ \E op \in BillableOps :
       \E validInput \in (IF op \in ValidatedOps THEN BOOLEAN ELSE {TRUE}) :
         ApplyRemote(op, validInput)
  \/ \E c \in BagToSet(pending), outcome \in {"ok", "fail"}, newImage \in Results :
       RemoteReturn(c, outcome, newImage)
  \/ \E hasContext \in BOOLEAN : ApplyCanvas(hasContext)
  \/ \E c \in BagToSet(pending), outcome \in {"ok", "fail"}, newImage \in Results :
       CanvasReturn(c, outcome, newImage)
  \/ ApplyBackground
  \/ \E c \in BagToSet(pending), outcome \in {"loadError", "noContext", "drawn"} :
       BgLoaded(c, outcome)
  \/ \E c \in BagToSet(pending), outcome \in {"ok", "fail"}, newImage \in Results :
       BlobCallback(c, outcome, newImage)
  \/ RefillCredits
  \/ DismissError

LoadingFairSpec == Init /\ [][SingleNext]_vars /\ WF_vars(LoadingReturn)

\* =====================================================================
\* VoiceControl (src/components/VoiceControl.tsx).  The component is not
\* mounted by App, so it is a state machine of its own.
\* =====================================================================
\* The button while status is not 'listening': onClick = handleStartRecording,
\* up to `await getUserMedia`.
StartClick ==
  /\ status # "listening"
  /\ IF status # "idle"
       THEN UNCHANGED <<sessions, message>>
       ELSE /\ Cardinality(ActiveSlots) + timers + clearTimers + orphanStreams
                 < MaxSessions
            /\ LET s == CHOOSE f \in Slots \ ActiveSlots :
                          \A g \in Slots \ ActiveSlots : f <= g
               IN sessions' = [sessions EXCEPT ![s].phase = "permission"]
            /\ message' = "Waiting for permission..."
  /\ onCommand' = NoCall
  /\ UNCHANGED <<status, mediaRecorderRef, timers, clearTimers, orphanStreams,
                 editorVars, toolVars>>

\* handleStartRecording after `await getUserMedia`:
\*   denied       the request rejects: catch of line 86
\*   granted      the recorder is made, stored in the ref and started
\*   ctorThrows   new MediaRecorder(stream) throws: catch, with the stream open
\*   startThrows  recorder.start() throws: catch, with the stream open and the
\*                ref already set
\* setStatus('listening') and the catch's setStatus('error') are applied
\* together.
PermissionReturn(s, outcome) ==
  /\ sessions[s].phase = "permission"
  /\ IF outcome = "granted"
       THEN /\ status' = "listening"
            /\ message' = "Listening..."
            /\ mediaRecorderRef' = s
            /\ sessions' = [sessions EXCEPT ![s].phase = "recording"]
            /\ UNCHANGED <<timers, orphanStreams>>
       ELSE /\ status' = "error"
            /\ message' = "Microphone access denied."
            /\ timers' = timers + 1
            /\ sessions' = [sessions EXCEPT ![s] = FreeSlot]
            /\ orphanStreams' = IF outcome = "denied" THEN orphanStreams
                                ELSE orphanStreams + 1
            /\ mediaRecorderRef' = IF outcome = "startThrows" THEN s
                                   ELSE mediaRecorderRef
  /\ onCommand' = NoCall
  /\ UNCHANGED <<clearTimers, editorVars, toolVars>>

\* The button while status is 'listening': onClick = stopRecording.
StopClick ==
  /\ status = "listening"
  /\ IF mediaRecorderRef # 0 /\ sessions[mediaRecorderRef].phase = "recording"
       THEN sessions' = [sessions EXCEPT ![mediaRecorderRef].phase = "stopping"]
       ELSE UNCHANGED sessions
  /\ onCommand' = NoCall
  /\ UNCHANGED <<status, mediaRecorderRef, timers, clearTimers, orphanStreams,
                 message, editorVars, toolVars>>

\* recorder.onstop up to `await transcribeAudio`.
OnStop(s) ==
  /\ sessions[s].phase = "stopping"
  /\ status' = "transcribing"
  /\ message' = "Transcribing..."
  /\ sessions' = [sessions EXCEPT ![s].phase = "transcribing"]
  /\ onCommand' = NoCall
  /\ UNCHANGED <<mediaRecorderRef, timers, clearTimers, orphanStreams, editorVars, toolVars>>

\* recorder.onstop after `await transcribeAudio`: the call threw (catch,
\* finally), or returned text; the finally stops the tracks of the stream.
TranscribeFails(s) ==
  /\ sessions[s].phase = "transcribing"
  /\ status' = "error"
  /\ message' = "Error: ..."
  /\ timers' = timers + 1
  /\ sessions' = [sessions EXCEPT ![s] = FreeSlot]
  /\ onCommand' = NoCall
  /\ UNCHANGED <<mediaRecorderRef, clearTimers, orphanStreams, editorVars, toolVars>>

TranscribeReturn(s, text) ==
  /\ sessions[s].phase = "transcribing"
  /\ IF isBlank(text)
       THEN /\ status' = "idle"
            /\ message' = "No speech detected."
            /\ clearTimers' = clearTimers + 1
            /\ sessions' = [sessions EXCEPT ![s] = FreeSlot]
       ELSE /\ status' = "interpreting"
            /\ message' = "Interpreting..."
            /\ sessions' = [sessions EXCEPT ![s] =
                              [phase |-> "interpreting", transcript |-> text]]
            /\ UNCHANGED clearTimers
  /\ onCommand' = NoCall
  /\ UNCHANGED <<mediaRecorderRef, timers, orphanStreams, editorVars, toolVars>>

\* recorder.onstop after `await interpretVoiceCommand`, which never throws:
\* onStatusUpdate(`Command: ...`), onCommand(command), setStatus('idle'),
\* finally.
InterpretReturn(s, response) ==
  /\ sessions[s].phase = "interpreting"
  /\ onCommand' = interpretVoiceCommand(sessions[s].transcript, response)
  /\ message' = "Command: ..."
  /\ status' = "idle"
  /\ sessions' = [sessions EXCEPT ![s] = FreeSlot]
  /\ UNCHANGED <<mediaRecorderRef, timers, clearTimers, orphanStreams, editorVars, toolVars>>

\* A timer of an error display fires: setStatus('idle'); onStatusUpdate(null).
TimerFires ==
  /\ timers > 0
  /\ timers' = timers - 1
  /\ status' = "idle"
  /\ message' = "null"
  /\ onCommand' = NoCall
  /\ UNCHANGED <<mediaRecorderRef, sessions, clearTimers, orphanStreams, editorVars, toolVars>>

\* The timer of the `No speech detected.` message fires: onStatusUpdate(null).
ClearTimerFires ==
  /\ clearTimers > 0
  /\ clearTimers' = clearTimers - 1
  /\ message' = "null"
  /\ onCommand' = NoCall
  /\ UNCHANGED <<status, mediaRecorderRef, sessions, timers, orphanStreams,
                 editorVars, toolVars>>

VoiceNext ==
  \/ StartClick
  \/ \E s \in Slots, outcome \in {"denied", "granted", "ctorThrows", "startThrows"} :
       PermissionReturn(s, outcome)
  \/ StopClick
  \/ \E s \in Slots : OnStop(s)
  \/ \E s \in Slots : TranscribeFails(s)
  \/ \E s \in Slots, text \in Transcripts : TranscribeReturn(s, text)
  \/ \E s \in Slots, response \in Responses : InterpretReturn(s, response)
  \/ TimerFires
  \/ ClearTimerFires

VoiceSpec == Init /\ [][VoiceNext]_vars

\* The scheduling the voice claims assume: a timer that is set fires.
VoiceFairSpec == VoiceSpec /\ WF_vars(TimerFires)

\* ------------------------------------------------ tools and selections
\* What the image area renders (the JSX under currentImageUrl).
CanvasShown == natural # NoImage /\ inFlight = "idle" /\ ~isComparing
CropCanvas  == CanvasShown /\ activeTool \in CropCanvasTools
PlainCanvas == CanvasShown /\ activeTool \notin CropCanvasTools

\* resetAndLoadImage with a supported file of native size `size`.  The file
\* input is never disabled, so this can happen while an edit is in flight.
resetAndLoadImage(size) ==
  /\ natural' = size
  /\ edited' = FALSE
  /\ activeTool' = "retouch"
  /\ isComparing' = FALSE
  /\ hotspot' = Null
  /\ completedEraseSelection' = Undefined
  /\ imageDimensions' = Null
  /\ UNCHANGED <<inFlight, outbound, request, editorVars, voiceVars>>

\* The mount effect adopts a stored session: setHistory / setHistoryIndex,
\* nothing else.
SessionShown(size, e) ==
  /\ natural = NoImage
  /\ natural' = size
  /\ edited' = e
  /\ UNCHANGED <<activeTool, isComparing, hotspot, completedEraseSelection,
                 imageDimensions, inFlight, outbound, request, editorVars, voiceVars>>

\* handleToolSelect, from an enabled toolbar button (the button of the active
\* tool is enabled too).
handleToolSelect(tool) ==
  /\ natural # NoImage
  /\ inFlight = "idle"
  /\ tool \notin ComingSoon
  /\ isComparing' = FALSE
  /\ activeTool' = tool
  /\ hotspot' = Null
  /\ completedEraseSelection' = eraseSelectionAfterSelect(tool, completedEraseSelection)
  /\ UNCHANGED <<imageDimensions, natural, edited, inFlight, outbound, request,
                 editorVars, voiceVars>>

\* handleCompareToggle
handleCompareToggle ==
  /\ edited
  /\ inFlight = "idle"
  /\ isComparing' = ~isComparing
  /\ activeTool' = IF ~isComparing THEN "null" ELSE activeTool
  /\ UNCHANGED <<hotspot, completedEraseSelection, imageDimensions, natural, edited,
                 inFlight, outbound, request, editorVars, voiceVars>>

\* handleImageClick: a click on the plain <img>, at native position p.
handleImageClick(p) ==
  /\ PlainCanvas
  /\ p.x <= natural.width
  /\ p.y <= natural.height
  /\ hotspot' = IF activeTool # "retouch" THEN hotspot ELSE p
  /\ UNCHANGED <<activeTool, isComparing, completedEraseSelection, imageDimensions,
                 natural, edited, inFlight, outbound, request, editorVars, voiceVars>>

\* onComplete of ReactCrop
onComplete(c) ==
  /\ CropCanvas
  /\ completedEraseSelection' = IF activeTool = "erase" THEN c ELSE completedEraseSelection
  /\ UNCHANGED <<activeTool, isComparing, hotspot, imageDimensions, natural, edited,
                 inFlight, outbound, request, editorVars, voiceVars>>

\* onImageLoad: the load event of the <img> inside ReactCrop, the only
\* element that has the handler.
onImageLoad ==
  /\ CropCanvas
  /\ imageDimensions' = natural
  /\ UNCHANGED <<activeTool, isComparing, hotspot, completedEraseSelection, natural,
                 edited, inFlight, outbound, request, editorVars, voiceVars>>

\* handleUndo
ToolUndo(size, e) ==
  /\ edited
  /\ inFlight = "idle"
  /\ natural' = size
  /\ edited' = e
  /\ isComparing' = FALSE
  /\ UNCHANGED <<activeTool, hotspot, completedEraseSelection, imageDimensions,
                 inFlight, outbound, request, editorVars, voiceVars>>

\* handleRedo (whether there is an entry to redo is not followed here)
ToolRedo(size) ==
  /\ natural # NoImage
  /\ inFlight = "idle"
  /\ natural' = size
  /\ edited' = TRUE
  /\ isComparing' = FALSE
  /\ UNCHANGED <<activeTool, hotspot, completedEraseSelection, imageDimensions,
                 inFlight, outbound, request, editorVars, voiceVars>>

\* handleApplyRetouch up to its await.  `accepted` is FALSE when the handler
\* returns early (no credits, no prompt and no reference image).
handleApplyRetouch(accepted) ==
  /\ natural # NoImage
  /\ inFlight = "idle"
  /\ activeTool = "retouch"
  /\ IF accepted
     THEN /\ inFlight' = "retouch"
          /\ outbound' = Args(hotspot, hotspotRadius, Undefined, imageDimensions)
          /\ request' = generateEditedImage(hotspot, hotspotRadius, Undefined,
                                            imageDimensions)
     ELSE UNCHANGED <<inFlight, outbound, request>>
  /\ UNCHANGED <<activeTool, isComparing, hotspot, completedEraseSelection,
                 imageDimensions, natural, edited, editorVars, voiceVars>>

\* handleApplyErase up to its await.
handleApplyErase(accepted) ==
  /\ natural # NoImage
  /\ inFlight = "idle"
  /\ activeTool = "erase"
  /\ IF accepted
     THEN /\ inFlight' = "erase"
          /\ outbound' = Args(Null, 0, completedEraseSelection, imageDimensions)
          /\ request' = generateEditedImage(Null, 0, completedEraseSelection,
                                            imageDimensions)
     ELSE UNCHANGED <<inFlight, outbound, request>>
  /\ UNCHANGED <<activeTool, isComparing, hotspot, completedEraseSelection,
                 imageDimensions, natural, edited, editorVars, voiceVars>>

\* The other edit handlers up to their await: they read no selection.
OtherEditStarts ==
  /\ natural # NoImage
  /\ inFlight = "idle"
  /\ activeTool \in Tool \ {"retouch", "erase"}
  /\ inFlight' = "other"
  /\ UNCHANGED <<activeTool, isComparing, hotspot, completedEraseSelection,
                 imageDimensions, natural, edited, outbound, request,
                 editorVars, voiceVars>>

\* The continuation of the edit in flight: updateHistory with an image of
\* native size `size` when it succeeded, then the handler's finally block.
EditSettles(outcome, size) ==
  /\ inFlight # "idle"
  /\ inFlight' = "idle"
  /\ hotspot' = IF inFlight = "retouch" THEN Null ELSE hotspot
  /\ completedEraseSelection' =
       IF inFlight = "erase" THEN Undefined ELSE completedEraseSelection
  /\ IF outcome = "ok"
     THEN /\ natural' = size
          /\ edited' = TRUE
          /\ isComparing' = FALSE
     ELSE UNCHANGED <<natural, edited, isComparing>>
  /\ UNCHANGED <<activeTool, imageDimensions, outbound, request, editorVars, voiceVars>>

ToolNext ==
  \/ \E size \in Sizes : resetAndLoadImage(size)
  \/ \E size \in Sizes, e \in BOOLEAN : SessionShown(size, e)
  \/ \E tool \in Tool : handleToolSelect(tool)
  \/ handleCompareToggle
  \/ \E p \in Points : handleImageClick(p)
  \/ \E c \in Selections : onComplete(c)
  \/ onImageLoad
  \/ \E size \in Sizes, e \in BOOLEAN : ToolUndo(size, e)
  \/ \E size \in Sizes : ToolRedo(size)
  \/ \E accepted \in BOOLEAN : handleApplyRetouch(accepted)
  \/ \E accepted \in BOOLEAN : handleApplyErase(accepted)
  \/ OtherEditStarts
  \/ \E outcome \in {"ok", "fail"}, size \in Sizes : EditSettles(outcome, size)

ToolSpec == Init /\ [][ToolNext]_vars

\* generateEditedImage on its own: every combination of arguments, also those
\* no handler of App passes.
GatewayArgs ==
  { Args(h, r, sel, d) :
      h \in Points \cup {Null},
      r \in {0, hotspotRadius},
      sel \in Selections \cup {[x |-> 20, y |-> 10, width |-> 40, height |-> 0],
                               Undefined},
      d \in Sizes \cup {Null, Undefined} }

GatewayInit ==
  /\ AppMounted
  /\ store = NoRecord
  /\ writeLatency = "none"
  /\ CanvasMounted
  /\ outbound \in GatewayArgs
  /\ request = NoScope

GatewayCall ==
  /\ outbound.made
  /\ ~request.made
  /\ request' = generateEditedImage(outbound.hotspot, outbound.radius,
                                    outbound.selection, outbound.imageDimensions)
  /\ UNCHANGED <<activeTool, isComparing, hotspot, completedEraseSelection,
                 imageDimensions, natural, edited, inFlight, outbound,
                 editorVars, voiceVars>>

GatewayNext == GatewayCall

GatewaySpec == GatewayInit /\ [][GatewayNext]_vars

\* =====================================================================
\* Properties
\* =====================================================================
\* Steps of the next-state relation, by what they do.
AppendStep(newImage) ==
  \E c \in BagToSet(pending) :
    \/ RemoteReturn(c, "ok", newImage)
    \/ CanvasReturn(c, "ok", newImage)
    \/ BlobCallback(c, "ok", newImage)

BillableCall ==
  \/ \E op \in BillableOps, validInput \in BOOLEAN : ApplyRemote(op, validInput)
  \/ SuggestTitles

BillableReturn ==
  \E c \in BagToSet(pending), outcome \in {"ok", "fail"} :
    \/ \E newImage \in Results : RemoteReturn(c, outcome, newImage)
    \/ TitlesReturn(c, outcome)

FailureStep ==
  \/ ApplyCanvas(FALSE)
  \/ \E c \in BagToSet(pending) :
       \/ \E newImage \in Results : RemoteReturn(c, "fail", newImage)
       \/ \E newImage \in Results : CanvasReturn(c, "fail", newImage)
       \/ BgLoaded(c, "loadError")
       \/ BgLoaded(c, "noContext")
       \/ \E newImage \in Results : BlobCallback(c, "fail", newImage)

BatchReturn ==
  \E q \in BagToSet(runs), outcome \in {"ok", "fail"} : BatchItemReturn(q, outcome)

NumProcessing ==
  Cardinality({j \in 1..Len(images) : images[j].status = "processing"})

\* C1: once a session has started (history or cursor set by an upload or a
\* restore), history is non-empty and 0 <= historyIndex <= Len(history) - 1;
\* history stays non-empty for as long as the page lives; undo at cursor 0
\* and redo at the last entry change neither history nor historyIndex.
C1_Range ==
  (history # <<>> \/ historyIndex # -1) =>
    (Len(history) > 0 /\ historyIndex >= 0 /\ historyIndex <= Len(history) - 1)

C1_Step ==
  /\ (Len(history) > 0 /\ ~isRestoring') => Len(history') > 0
  /\ (HandleUndo /\ historyIndex = 0) => UNCHANGED <<history, historyIndex>>
  /\ (HandleRedo /\ historyIndex = Len(history) - 1) => UNCHANGED <<history, historyIndex>>

C1_CursorInRange == []C1_Range /\ [][C1_Step]_vars

\* Undo was called at cursor 0 of a history with two entries.
C1_Witness == rejected = "undo" /\ historyIndex = 0 /\ Len(history) = 2

\* C2 (as claimed): every append made while historyIndex < Len(history) - 1
\* leaves exactly the entries up to historyIndex followed by the new image,
\* with the cursor on the new image.
C2_AppendTruncatesAtCursor ==
  [][\A newImage \in Results :
       (AppendStep(newImage) /\ historyIndex < Len(history) - 1) =>
         /\ history' = Append(SubSeq(history, 1, historyIndex + 1), newImage)
         /\ historyIndex' = Len(history') - 1]_vars

\* C3 (as claimed): in a started session history[0] is the file of the most
\* recent upload, and an upload leaves history = [file], historyIndex = 0.
C3_OriginalIsLastUpload ==
  /\ []((~isRestoring /\ Len(history) > 0) => history[1] = lastUpload)
  /\ [][\A file \in Uploads :
          Upload(file) => (history' = <<file>> /\ historyIndex' = 0)]_vars

\* C4: a billable single-image call that is dispatched with credits >= 1
\* takes exactly one credit in the dispatching step, while its call is still
\* outstanding; the step in which the call returns, with a result or with an
\* error, leaves credits as they are.
C4_Step ==
  /\ (BillableCall /\ credits >= 1 /\ BagCardinality(pending') > BagCardinality(pending))
       => credits' = credits - 1
  /\ BillableReturn => credits' = credits

C4_OneCreditAtDispatch == [][C4_Step]_vars

\* A remote edit is outstanding and its credit is already gone.
C4_Witness == Pending("remote") # {} /\ credits = INITIAL_CREDITS - 1

\* C5: a billable call made with too few credits (none for a single-image
\* operation, fewer than the pending items for a batch run) dispatches
\* nothing and leaves credits, history and every batch item as they are.
C5_Step ==
  /\ (BillableCall /\ credits <= 0)
       => UNCHANGED <<pending, credits, history, historyIndex, images, runs, isProcessing>>
  /\ (HandleApply /\ ~isProcessing /\ credits < Len(pendingImages))
       => UNCHANGED <<pending, credits, history, historyIndex, images, runs, isProcessing>>

C5_InsufficientCreditsAbort == [][C5_Step]_vars

\* Apply was clicked for a batch of two pending items with one credit left.
C5_Witness == rejected = "batchCredits" /\ credits = 1 /\ Len(pendingImages) = 2

\* C6: the credits counter, in memory and in the stored record, is never
\* negative.
C6_CreditsNonNegative == credits >= 0 /\ store.credits >= 0

\* The last credit has been spent and the record saved.
C6_Witness == credits = 0 /\ store.present /\ store.credits = 0

\* C7: the step that starts a batch run of N pending items takes exactly N
\* credits; the return of an item, successful or failed, takes or gives
\* none; during the run credits never go down.
C7_Step ==
  /\ (HandleApply /\ ~isProcessing /\ isProcessing')
       => (credits >= Len(pendingImages) /\ credits' = credits - Len(pendingImages))
  /\ BatchReturn => credits' = credits
  /\ isProcessing => credits' >= credits

C7_BatchDeductsUpFront == [][C7_Step]_vars

\* A run of two items: the first failed, the second is being processed, and
\* two credits are gone.
C7_Witness ==
  /\ isProcessing /\ Len(images) = 2 /\ credits = INITIAL_CREDITS - 2
  /\ images[1].status = "error" /\ images[2].status = "processing"

\* C8 (as claimed): the step in which a remote edit or a local canvas
\* operation fails leaves history and historyIndex as they were and sets an
\* error message.
C8_FailureKeepsHistorySetsError ==
  [][FailureStep =>
       (history' = history /\ historyIndex' = historyIndex /\ error' # NoError)]_vars

\* C9: when a batch run ends no item is pending or processing; after an item
\* fails, the loop goes on with the next item of the run; and a run that is
\* in progress ends.
C9_Step ==
  /\ (isProcessing /\ ~isProcessing' /\ editMode' = "batch")
       => \A j \in 1..Len(images') : images'[j].status \in {"done", "error"}
  /\ \A q \in BagToSet(runs) :
       (BatchItemReturn(q, "fail") /\ Tail(q) # <<>>)
         => images'[Head(Tail(q))].status = "processing"

C9_RunEndsWithAllTerminal ==
  /\ [][C9_Step]_vars
  /\ (isProcessing ~> ~isProcessing)

\* A finished run whose first item failed and whose second item succeeded.
C9_Witness ==
  /\ editMode = "batch" /\ ~isProcessing /\ Len(images) = 2
  /\ images[1].status = "error" /\ images[2].status = "done"

\* C10: at most one item is processing and at most one handleApply loop (so
\* one awaited call) exists; an item that becomes processing has no pending
\* item before it in the array; handleApply called while isProcessing
\* changes nothing.
C10_Inv ==
  /\ NumProcessing <= 1
  /\ BagCardinality(runs) <= 1
  /\ isProcessing <=> (runs # EmptyBag)
  /\ \A q \in BagToSet(runs) : images[Head(q)].status = "processing"

C10_Step ==
  /\ Len(images') = Len(images) =>
       \A k \in 1..Len(images) :
         (images'[k].status = "processing" /\ images[k].status # "processing")
           => \A j \in 1..(k - 1) : images'[j].status # "pending"
  /\ (HandleApply /\ isProcessing)
       => UNCHANGED <<images, runs, isProcessing, credits>>

C10_OneAtATimeInOrder == []C10_Inv /\ [][C10_Step]_vars

\* Apply was clicked again while the run was processing its second item.
C10_Witness ==
  /\ rejected = "busy" /\ isProcessing /\ Len(images) = 2
  /\ images[2].status = "processing"

\* C11: in a batch run an item's status only moves pending -> processing ->
\* (done | error): while a run is starting or in progress no other change of
\* status happens, an item that is done or error is not touched by the run,
\* and an item only returns to pending by resetBatch, outside a run.
StatusMoves ==
  {<<"pending", "processing">>, <<"processing", "done">>, <<"processing", "error">>}

C11_Step ==
  Len(images') = Len(images) =>
    \A k \in 1..Len(images) :
      /\ ((isProcessing \/ isProcessing') /\ images'[k].status # images[k].status)
           => <<images[k].status, images'[k].status>> \in StatusMoves
      /\ (images[k].status \in {"done", "error"} /\ images'[k] # images[k])
           => (ResetBatch /\ ~isProcessing)
      /\ (images'[k].status = "pending" /\ images[k].status # "pending")
           => (ResetBatch /\ ~isProcessing)

C11_StatusOnlyForward == [][C11_Step]_vars

\* A run in progress whose first item is done and whose second item is being
\* processed.
C11_Witness ==
  /\ isProcessing /\ Len(images) = 2
  /\ images[1].status = "done" /\ images[2].status = "processing"

\* C12: the microphone stream of a voice session is released on every path
\* out of the session, a failure of handleStartRecording after the stream was
\* acquired included: no stream outlives its session, and while the status is
\* idle no acquired stream is live.
C12_MicrophoneReleased ==
  /\ orphanStreams = 0
  /\ status = "idle" => LiveStreams = 0

\* C13: however start clicks interleave with a pending permission request, at
\* most one session holds a microphone stream and a recorder, and every
\* recorder that is recording is the one stopRecording stops.
C13_OneSessionAtATime ==
  /\ Cardinality({s \in Slots : HoldsStream(s)}) <= 1
  /\ \A s \in Recording : mediaRecorderRef = s

\* The ways a voice session fails.
Throws == [kind |-> "throws", tool |-> "unknown", prompt |-> <<>>]
PermissionFailure ==
  \E s \in Slots, outcome \in {"denied", "ctorThrows", "startThrows"} :
    PermissionReturn(s, outcome)
TranscriptionFailure == \E s \in Slots : TranscribeFails(s)
InterpretationFailure == \E s \in Slots : InterpretReturn(s, Throws)

\* C14, as stated: any failure of the permission request, of transcription or
\* of intent parsing sets the status to error and emits no command, and from
\* error the status returns to idle with no user input.
C14_AnyFailureIsError ==
  /\ [][(PermissionFailure \/ TranscriptionFailure \/ InterpretationFailure)
          => (status' = "error" /\ onCommand' = NoCall)]_vars
  /\ (status = "error" ~> status = "idle")

\* C14, amended: a failure of the permission request, of the recorder or of
\* transcription sets the status to error, arms one reset timer and emits no
\* command; a failure of intent parsing is absorbed by interpretVoiceCommand:
\* the session emits the command {unknown, transcript} and ends idle. While
\* the status is error a reset timer is pending, and from error the status
\* returns to idle with no user input.
C14_Step ==
  /\ (PermissionFailure \/ TranscriptionFailure)
       => (status' = "error" /\ timers' = timers + 1 /\ onCommand' = NoCall)
  /\ \A s \in Slots :
       InterpretReturn(s, Throws)
         => (status' = "idle" /\ onCommand' = Unknown(sessions[s].transcript))

C14_FailuresHandled ==
  /\ [][C14_Step]_vars
  /\ [](status = "error" => timers > 0)
  /\ (status = "error" ~> status = "idle")

\* The error display of a session whose transcription failed.
C14_Witness ==
  /\ status = "error" /\ message = "Error: ..." /\ timers = 1
  /\ onCommand = NoCall /\ ActiveSlots = {}

\* C15: the voice status changes only along idle -> listening, idle -> error,
\* listening -> transcribing, listening -> error, transcribing -> interpreting,
\* transcribing -> idle, transcribing -> error, interpreting -> idle,
\* interpreting -> error and error -> idle (so interpreting is only entered
\* from transcribing), and a start click while the status is not idle changes
\* nothing.
VoiceMoves ==
  {<<"idle", "listening">>, <<"idle", "error">>,
   <<"listening", "transcribing">>, <<"listening", "error">>,
   <<"transcribing", "interpreting">>, <<"transcribing", "idle">>,
   <<"transcribing", "error">>,
   <<"interpreting", "idle">>, <<"interpreting", "error">>,
   <<"error", "idle">>}

C15_Step ==
  /\ status' # status => <<status, status'>> \in VoiceMoves
  /\ (StartClick /\ status # "idle")
       => UNCHANGED <<status, mediaRecorderRef, sessions, timers, orphanStreams,
                      message, clearTimers>>

C15_OnlyListedTransitions == [][C15_Step]_vars

\* C16: when transcribeAudio returns a text that is empty or only white space,
\* the session ends there: the status becomes idle, interpretVoiceCommand is
\* not called (the session is never interpreting), onCommand is not called, and
\* no error is shown for the session (no reset timer is armed).
WhiteSpaceOnly(text) == \A i \in 1..Len(text) : text[i] = " "

C16_Step ==
  \A s \in Slots, text \in Transcripts :
    (TranscribeReturn(s, text) /\ WhiteSpaceOnly(text))
      => /\ status' = "idle"
         /\ sessions'[s] = FreeSlot
         /\ onCommand' = NoCall
         /\ timers' = timers

C16_SilenceEndsIdle == [][C16_Step]_vars

\* A session has just ended on `No speech detected.`.
C16_Witness ==
  /\ status = "idle" /\ message = "No speech detected." /\ clearTimers = 1
  /\ ActiveSlots = {} /\ timers = 0 /\ onCommand = NoCall

\* C17: the command interpretVoiceCommand returns has a tool of the declared
\* vocabulary; when the model answers with a tool name outside it the command
\* is {unknown, transcript}, the transcript as given; and an answer whose tool
\* is inside the declared vocabulary is returned unchanged.
C17_Step ==
  \A s \in Slots, response \in Responses :
    (InterpretReturn(s, response) /\ response.kind = "json")
      => /\ onCommand'.tool \in DeclaredTools
         /\ response.tool \notin DeclaredTools
              => onCommand' = Unknown(sessions[s].transcript)
         /\ response.tool \in DeclaredTools
              => onCommand' = [tool |-> response.tool, prompt |-> response.prompt]

C17_CommandInVocabulary == [][C17_Step]_vars

\* C18: a session that was saved, then read again after a reload of the page,
\* is restored as it was: in single mode the stored record is the record of
\* the history, historyIndex and credits in memory, a reload leaves the record
\* as it is, and the load effect adopts exactly the record's history,
\* historyIndex and credits, leaving the record unchanged.
C18_Saved ==
  (~isRestoring /\ editMode = "single" /\ Len(history) > 0)
    => store = SessionRecord(history, historyIndex, credits)

C18_Step ==
  /\ Reload => store' = store
  /\ (LoadSession /\ store.present)
       => /\ history' = store.history
          /\ historyIndex' = store.historyIndex
          /\ credits' = store.credits
          /\ editMode' = "single"
          /\ store' = store

C18_RoundTrip == []C18_Saved /\ [][C18_Step]_vars

\* A session with no credits left and the cursor moved back by an undo has
\* just been restored.
C18_Witness ==
  /\ rejected = "restored" /\ credits = 0
  /\ Len(history) = 2 /\ historyIndex = 0

\* C19: a stored record that cannot be read, or that is structurally invalid
\* (no history, a historyIndex outside the history, no credits), is not
\* adopted at start-up, neither as it is nor repaired or completed with
\* defaults: the page starts with no prior session.
ValidRecord(rec) ==
  /\ rec.present /\ Len(rec.history) > 0
  /\ rec.historyIndex >= 0 /\ rec.historyIndex < Len(rec.history)
  /\ rec.hasCredits /\ rec.credits >= 0

C19_Step ==
  ((LoadSession \/ LoadSessionFails) /\ ~ValidRecord(store))
    => /\ history' = <<>> /\ historyIndex' = -1
       /\ credits' = INITIAL_CREDITS
       /\ ~isRestoring'

C19_InvalidRecordDiscarded == [][C19_Step]_vars

\* C20: in single mode after the restore, every change of history,
\* historyIndex or credits asks for a write of the full record of the new
\* state (a delete when the history is empty); pending writes are applied
\* oldest first, so the last write asked for is always that record and, once
\* no write is pending, the stored record is the record of the state in
\* memory, absent exactly when the history is empty; an upload asks for a
\* delete of the stored record before the write of the new session's.
MemoryRecord ==
  IF Len(history) > 0 THEN SessionRecord(history, historyIndex, credits)
  ELSE NoRecord

LastAskedFor == IF writes = <<>> THEN store ELSE writes[Len(writes)]

SingleRestored == ~isRestoring /\ editMode = "single"

C20_Inv ==
  SingleRestored
    => /\ LastAskedFor = MemoryRecord
       /\ writes = <<>> => (store = MemoryRecord /\ (store.present <=> Len(history) > 0))

C20_Step ==
  /\ (SingleRestored /\ SingleRestored'
        /\ <<history', historyIndex', credits'>> # <<history, historyIndex, credits>>)
       => /\ Len(writes') > Len(writes)
          /\ SubSeq(writes', 1, Len(writes)) = writes
          /\ store' = store
  /\ (isRestoring' = isRestoring /\ Len(writes') < Len(writes))
       => (store' = Head(writes) /\ writes' = Tail(writes))
  /\ (\E file \in Uploads : Upload(file))
       => /\ Len(writes') = Len(writes) + 2
          /\ writes'[Len(writes) + 1] = NoRecord

CompositorFailure ==
  \/ ApplyCanvas(FALSE)
  \/ \E c \in BagToSet(pending), newImage \in Results : CanvasReturn(c, "fail", newImage)
  \/ \E c \in BagToSet(pending) : BgLoaded(c, "noContext")
  \/ \E c \in BagToSet(pending), newImage \in Results : BlobCallback(c, "fail", newImage)

C23_CompositorFailureSurfaced ==
  [][CompositorFailure
       => (error' = Message /\ UNCHANGED <<history, historyIndex>> /\ ~isLoading')]_vars

\* C27: in single mode, while a history-producing operation is between its
\* dispatch and its append, history and historyIndex are changed by nothing
\* but the append of that one operation: no undo, redo, upload or other
\* operation's append takes effect meanwhile.
Outstanding == BagCardinality(pending) - CopiesIn(TitlesClosure, pending)

C27_Step ==
  (Outstanding >= 1 /\ ~isRestoring'
     /\ <<history', historyIndex'>> # <<history, historyIndex>>)
    => (Outstanding = 1 /\ \E newImage \in Results : AppendStep(newImage))

C27_NoChangeWhilePending == [][C27_Step]_vars

\* C28: a successful operation appends its result to the history as it is
\* when the operation completes: the entries up to the cursor of that moment
\* are all kept and the result follows them, so an entry appended, or a
\* cursor move made, since the operation's dispatch is still reflected.
C28_Step ==
  \A newImage \in Results :
    AppendStep(newImage)
      => /\ Len(history') = historyIndex + 2
         /\ \A k \in 1..(historyIndex + 1) : history'[k] = history[k]
         /\ history'[Len(history')] = newImage
         /\ historyIndex' = historyIndex + 1

C28_AppendAtCompletion == [][C28_Step]_vars

\* C29, as stated: while isRestoring is true, up to and including the step
\* that ends the start-up load, no write or delete reaches the store; and in
\* batch mode no session record is written.
C29_BatchStep ==
  /\ (editMode = "batch" /\ editMode' = "batch") => store' = store
  /\ (editMode' = "batch" /\ store' # store) => ~store'.present

C29_Step ==
  /\ isRestoring' => store' = store
  /\ LoadSession => store' = store
  /\ LoadSessionFails => store' = NoRecord
  /\ C29_BatchStep

LoadingOps == Pending("remote") \cup Pending("canvas") \cup Pending("bgLoad")

C30_Step ==
  \A c \in LoadingOps : (c \notin BagToSet(pending')) => ~isLoading'

C30_LoadingEnds ==
  /\ [](isLoading => LoadingOps # {})
  /\ [][C30_Step]_vars
  /\ (isLoading ~> ~isLoading)

\* A remote edit of the first image has failed: the error is shown and
\* isLoading is false again.
C30_Witness ==
  /\ ~isLoading /\ error = Message /\ pending = EmptyBag
  /\ Len(history) = 1 /\ credits = INITIAL_CREDITS - 1

\* C24: undo followed by redo, right after an append of an image, gives back
\* the state the append left: the same history, the same historyIndex, and
\* the appended image as current image; the undo in between only moves the
\* cursor back by one.
C24_Inv ==
  /\ trip.phase = "undone"
       => (history = trip.history /\ historyIndex = trip.historyIndex - 1)
  /\ trip.phase = "redone"
       => /\ history = trip.history /\ historyIndex = trip.historyIndex
          /\ hasCurrentImage
          /\ currentImage = trip.history[Len(trip.history)]

C24_UndoRedoIdentity == []C24_Inv

\* An append, an undo and a redo have just been made in a row.
C24_Witness == trip.phase = "redone" /\ Len(history) = 2 /\ historyIndex = 1

\* C26: generateEditedImage puts at most one geometry into a request.  A
\* region with non-zero width and height wins over a hotspot; the hotspot is
\* used only when there is no such region; and without imageDimensions (null
\* or undefined) the request carries no geometry and is a global edit.
C26_Inv ==
  request.made =>
    LET sel  == outbound.selection
        h    == outbound.hotspot
        dims == outbound.imageDimensions
    IN  /\ ~(request.region # Undefined /\ request.hotspot # Undefined)
        /\ (ProperRegion(sel) /\ Given(dims))
             => /\ request.hotspot = Undefined
                /\ request.region = [x |-> Percent(sel.x, dims.width),
                                     y |-> Percent(sel.y, dims.height),
                                     width  |-> Percent(sel.width, dims.width),
                                     height |-> Percent(sel.height, dims.height)]
        /\ request.hotspot # Undefined => (~ProperRegion(sel) /\ h # Null)
        /\ (~ProperRegion(sel) /\ h # Null /\ Given(dims))
             => request.hotspot = [x |-> Percent(h.x, dims.width),
                                   y |-> Percent(h.y, dims.height),
                                   radius |-> Percent(outbound.radius, dims.width)]
        /\ ~Given(dims) => (request.region = Undefined /\ request.hotspot = Undefined)

C26_OneGeometry == []C26_Inv

\* A call that was given both a hotspot and a proper region, and dimensions:
\* its request carries the region.
C26_Witness ==
  /\ request.made
  /\ outbound.hotspot # Null
  /\ ProperRegion(outbound.selection)
  /\ request.region # Undefined

\* C21: hotspot and completedEraseSelection are never both set.
C21_Inv == ~(hotspot # Null /\ completedEraseSelection # Undefined)

C21_OneSelection == []C21_Inv

\* An erase region is set in a session that has sent a retouch with a hotspot
\* before: both selections have been in use, one after the other.
C21_Witness ==
  /\ completedEraseSelection # Undefined
  /\ outbound.made
  /\ outbound.hotspot # Null

\* C22: every call of handleToolSelect, with whatever tool, leaves the
\* hotspot null and the erase region undefined.
C22_Step ==
  (\E tool \in Tool : handleToolSelect(tool))
    => (hotspot' = Null /\ completedEraseSelection' = Undefined)

C22_SelectResetsBoth == [][C22_Step]_vars

\* C25: a retouch applied with a hotspot set sends a request that carries the
\* hotspot, as percentages of the native size of the image current at
\* dispatch.
C25_Step ==
  (handleApplyRetouch(TRUE) /\ hotspot # Null)
    => /\ request'.hotspot # Undefined
       /\ request'.hotspot.x = Percent(hotspot.x, natural.width)
       /\ request'.hotspot.y = Percent(hotspot.y, natural.height)

C25_HotspotInRequest == [][C25_Step]_vars

====
